---- MODULE Spec2Model ----
(***************************************************************************)
(* async-read-length-limit: LengthLimit<T>, an AsyncRead wrapper that      *)
(* fails once a byte budget is used up (src/src/lib.rs).                   *)
(*                                                                         *)
(* The wrapped reader is a source of finite contents `data` with a cursor  *)
(* `pos`.  One step of the model is one call of LengthLimit::poll_read     *)
(* together with what the wrapped reader answers to the delegated call.    *)
(***************************************************************************)
EXTENDS Integers, Sequences, FiniteSets, TLC

\* ---------------------------------------------------------------- bounds
MaxLen   == 3      \* longest source contents
MaxLimit == 3      \* largest max_bytes given to LengthLimit::new
MaxBuf   == 2      \* largest caller buffer, buf.len()
MaxByte  == 1      \* byte values are 0..MaxByte
MaxOver  == 2      \* how far an over-reporting reader overstates its count

Bytes == 0..MaxByte

RECURSIVE SeqsUpTo(_, _)
SeqsUpTo(S, n) ==
    IF n = 0 THEN {<<>>}
    ELSE LET shorter == SeqsUpTo(S, n - 1)
         IN  shorter \cup {Append(s, b) : s \in {t \in shorter : Len(t) = n - 1}, b \in S}

Sources == SeqsUpTo(Bytes, MaxLen)

Min(a, b) == IF a < b THEN a ELSE b

\* ---------------------------------------------------------------- state
VARIABLES
    data,             \* contents of the wrapped reader (the Cursor's slice)
    pos,              \* read cursor of the wrapped reader
    bytes_remaining,  \* LengthLimit.bytes_remaining
    max_bytes,        \* the max_bytes LengthLimit::new was called with
    output,           \* bytes written into the caller's buffers so far
    reported,         \* sum of the n of every Ready(Ok(n)) returned so far
    result,           \* what the last poll_read returned
    delegated,        \* what the last poll_read did with the wrapped reader
    last_buf,         \* buf.len() given to the last poll_read
    op,               \* the last operation called on the wrapper
    loop,             \* state of a read_to_end future driving the wrapper
    overflow_checks,  \* whether the build checks integer overflow
    unit_arg,         \* the usize given to a LengthLimitExt constructor
    built,            \* what that constructor call produced
    reader_kind,      \* how the wrapped reader behaves
    returned,         \* what the last accessor call returned
    parked            \* a second read_to_end task that is not being polled

vars == <<data, pos, bytes_remaining, max_bytes, output, reported, result,
          delegated, last_buf, op, loop, overflow_checks, unit_arg, built,
          reader_kind, returned, parked>>

units == <<overflow_checks, unit_arg, built>>

\* what a poll_read leaves alone besides the wrapped contents
aside == <<reader_kind, returned, parked>>

\* ---------------------------------------------------------------- usize
\* bytes_remaining and the arguments of the LengthLimitExt constructors are
\* usize.  A usize is kept as its digits in base 1024, least significant
\* first: WordBits \div 10 full digits and a last digit holding the bits
\* that are left, so that `* 1024` moves every digit up by one place.
WordBits == 64
Kilo     == 1024

NumLimbs == (WordBits \div 10) + 1
TopBase  == 2 ^ (WordBits - 10 * (WordBits \div 10))

\* digits the arguments are drawn from
InputLimbs    == {0, 1, TopBase, Kilo - 1}
InputTopLimbs == {0, 1, TopBase - 1}

Words ==
    { w \in [1..NumLimbs -> InputLimbs \cup InputTopLimbs] :
        /\ w[NumLimbs] \in InputTopLimbs
        /\ \A i \in 1..(NumLimbs - 1) : w[i] \in InputLimbs }

Zero == [i \in 1..NumLimbs |-> 0]
One  == [i \in 1..NumLimbs |-> IF i = 1 THEN 1 ELSE 0]

\* what a constructor call came to: a panic, or a wrapper with this budget
Panicked     == [panicked |-> TRUE,  bytes_remaining |-> Zero]
Limited(w)   == [panicked |-> FALSE, bytes_remaining |-> w]
NotBuilt     == [fn |-> "none", out |-> Limited(Zero)]
Built(f, o)  == [fn |-> f, out |-> o]

NoUnits ==
    /\ overflow_checks = FALSE
    /\ unit_arg = Zero
    /\ built = NotBuilt

\* usize `x * 1024`: the product when it fits; otherwise a panic when the
\* build checks overflow and the low WordBits bits of the product when not
wrapping_mul_1024(w) ==
    [i \in 1..NumLimbs |->
        IF i = 1 THEN 0
        ELSE IF i = NumLimbs THEN w[i - 1] % TopBase
        ELSE w[i - 1]]

mul_1024_overflows(w) == w[NumLimbs] # 0 \/ w[NumLimbs - 1] >= TopBase

mul_1024(w) ==
    IF mul_1024_overflows(w) /\ overflow_checks
    THEN Panicked
    ELSE Limited(wrapping_mul_1024(w))

\* LengthLimitExt::limit_bytes
limit_bytes(max) == Limited(max)

\* LengthLimitExt::limit_kb: self.limit_bytes(max_kb * 1024)
limit_kb(max_kb) ==
    LET p == mul_1024(max_kb)
    IN  IF p.panicked THEN Panicked ELSE limit_bytes(p.bytes_remaining)

\* LengthLimitExt::limit_mb: self.limit_kb(max_mb * 1024)
limit_mb_one_factor(max_mb) == limit_kb(max_mb)
limit_mb(max_mb) ==
    LET p == mul_1024(max_mb)
    IN  IF p.panicked THEN Panicked ELSE limit_kb(p.bytes_remaining)

\* LengthLimitExt::limit_gb: self.limit_mb(max_gb * 1024)
limit_gb(max_gb) ==
    LET p == mul_1024(max_gb)
    IN  IF p.panicked THEN Panicked ELSE limit_mb(p.bytes_remaining)

\* ---------------------------------------------------------------- errors
\* std::io::Error as far as a caller can inspect it: kind() and the
\* contained error (get_ref()).
IoError(kind, inner) == [kind |-> kind, inner |-> inner]

NoError == IoError("none", "none")

\* pub struct LengthLimitExceeded;  a unit struct, no fields
LengthLimitExceeded == "LengthLimitExceeded"

\* impl Display for LengthLimitExceeded
fmt(marker) ==
    IF marker = LengthLimitExceeded THEN "Length limit exceeded" ELSE marker

\* impl From<LengthLimitExceeded> for std::io::Error
from_wrong_kind(value) == IoError("Other", value)
from(value) == IoError("InvalidData", value)

\* io::Error::to_string() of an error built by io::Error::new: the
\* contained error's Display
to_string(e) == fmt(e.inner)

\* Errors the wrapped reader may raise: any io::Error.  T is any AsyncRead,
\* a LengthLimit included (x.limit_bytes(1).limit_bytes(5)), so one of them
\* is the limit error of an inner wrapper, equal in kind and contained error
\* to the one this wrapper raises; another shares only its kind.
SourceErrors ==
    { IoError("UnexpectedEof", "early eof"),
      IoError("BrokenPipe", "broken pipe"),
      IoError("Interrupted", "interrupted"),
      IoError("InvalidData", "stream did not contain valid UTF-8"),
      from(LengthLimitExceeded) }

\* ---------------------------------------------------------------- poll results
Pending     == [tag |-> "Pending", n |-> 0, err |-> NoError]
ReadyOk(n)  == [tag |-> "Ok",      n |-> n, err |-> NoError]
ReadyErr(e) == [tag |-> "Err",     n |-> 0, err |-> e]
NoResult    == [tag |-> "none",    n |-> 0, err |-> NoError]

\* the wrapped reader was not polled in this step
NotPolled    == [called |-> FALSE, cap |-> 0, outcome |-> NoResult]
Polled(c, r) == [called |-> TRUE,  cap |-> c, outcome |-> r]

\* ---------------------------------------------------------------- wrapped reader
\* Three kinds of wrapped reader:
\*   "finite"        a Cursor over `data`: it ends after Len(data) bytes
\*   "endless"       a stream that never ends: `data` over and over
\*   "overreporting" a Cursor over `data` that may break the AsyncRead
\*                   contract by returning a count larger than the buffer
ReaderKinds == {"finite", "endless", "overreporting"}

\* bytes the reader can still hand over, as far as a buffer of cap bytes shows
reader_avail(cap) ==
    IF reader_kind = "endless" THEN cap ELSE Len(data) - pos

\* the byte at position p (from 1) of the stream
reader_byte(p) ==
    IF reader_kind = "endless" THEN data[((p - 1) % Len(data)) + 1] ELSE data[p]

\* What the wrapped reader may answer when polled with a buffer of `cap`
\* bytes: pending, one of its errors, or a byte count.  A count of 0 means
\* an empty buffer or the end of the contents; otherwise the reader hands
\* over at least one byte and at most what fits and what is left.  Only an
\* over-reporting reader returns a count above the length of the buffer.
reader_counts(cap) ==
    LET avail  == reader_avail(cap)
        honest == IF cap = 0 \/ avail = 0 THEN {0} ELSE 1..Min(cap, avail)
    IN  IF reader_kind = "overreporting"
        THEN honest \cup ((cap + 1)..(cap + MaxOver))
        ELSE honest

\* bytes the reader has put into a buffer of cap bytes when it returns
\* the count k: a reader cannot write past the slice it was given
reader_written(cap, k) == Min(k, Min(cap, reader_avail(cap)))

\* ---------------------------------------------------------------- LengthLimit
\* if bytes_remaining == 0 { return Poll::Ready(Err(..)) }
limit_reached_off_by_one(remaining) == remaining <= 1
limit_reached_never(remaining) == FALSE
limit_reached(remaining) == remaining = 0

\* if bytes_remaining < buf.len() { buf = &mut buf[..bytes_remaining]; }
\* The length of the buffer handed to the wrapped reader.
narrow_missing(buf_len, remaining) == buf_len
narrow_always(buf_len, remaining) == remaining
narrow(buf_len, remaining) ==
    IF remaining < buf_len THEN remaining ELSE buf_len

\* usize::saturating_sub
saturating_sub_no_update(a, b) == a
saturating_sub_all(a, b) == 0
saturating_sub_added(a, b) == a + b
saturating_sub_unchecked(a, b) == a - b
saturating_sub(a, b) == IF b > a THEN 0 ELSE a - b

\* the `?` on the wrapped reader's io::Result: From<io::Error> for io::Error
\* is the identity
try_reclassify(e) == from(LengthLimitExceeded)
try(e) == e

\* what an accessor returned: a usize, or the wrapped reader (by reference
\* or by value) as its contents and cursor
NoReturn        == [kind |-> "none",  n |-> 0, contents |-> <<>>, cursor |-> 0]
ReturnUsize(n)  == [kind |-> "usize", n |-> n, contents |-> <<>>, cursor |-> 0]
ReturnRef(d, c)    == [kind |-> "ref",    n |-> 0, contents |-> d, cursor |-> c]
ReturnReader(d, c) == [kind |-> "reader", n |-> 0, contents |-> d, cursor |-> c]

\* LengthLimit::new
new(reader, m) ==
    /\ data = reader
    /\ pos = 0
    /\ bytes_remaining = m
    /\ max_bytes = m
    /\ output = <<>>
    /\ reported = 0
    /\ result = NoResult
    /\ delegated = NotPolled
    /\ last_buf = 0
    /\ op = "new"
    /\ returned = NoReturn

\* poll_read with one of two slips: the budget is charged with the whole
\* capacity when the read is delegated instead of with the count when it
\* completes (charge_early), or the limit is checked after the read instead
\* of before it (check_late).
poll_read_faulty(buf_len, src, charge_early, check_late) ==
    /\ op' = "poll_read"
    /\ last_buf' = buf_len
    /\ UNCHANGED <<data, max_bytes, reader_kind, returned>>
    /\ IF bytes_remaining = 0
       THEN /\ src = NoResult
            /\ result' = ReadyErr(from(LengthLimitExceeded))
            /\ delegated' = NotPolled
            /\ UNCHANGED <<bytes_remaining, pos, output, reported>>
       ELSE LET cap == IF bytes_remaining < buf_len THEN bytes_remaining ELSE buf_len
                charged == IF charge_early THEN bytes_remaining - cap ELSE bytes_remaining
            IN  /\ delegated' = Polled(cap, src)
                /\ CASE src.tag = "Pending" ->
                          /\ result' = Pending
                          /\ bytes_remaining' = charged
                          /\ UNCHANGED <<pos, output, reported>>
                     [] src.tag = "Err" ->
                          /\ src.err \in SourceErrors
                          /\ result' = ReadyErr(src.err)
                          /\ bytes_remaining' = charged
                          /\ UNCHANGED <<pos, output, reported>>
                     [] src.tag = "Ok" ->
                          /\ src.n \in reader_counts(cap)
                          /\ pos' = pos + reader_written(cap, src.n)
                          /\ bytes_remaining' =
                                IF src.n > bytes_remaining THEN 0 ELSE bytes_remaining - src.n
                          /\ IF check_late /\ bytes_remaining' = 0
                             THEN /\ result' = ReadyErr(from(LengthLimitExceeded))
                                  /\ UNCHANGED <<output, reported>>
                             ELSE /\ result' = ReadyOk(src.n)
                                  /\ reported' = reported + src.n
                                  /\ output' = output \o
                                        [i \in 1..reader_written(cap, src.n) |->
                                            reader_byte(pos + i)]
                     [] OTHER -> FALSE

poll_read_charging_early(buf_len, src) == poll_read_faulty(buf_len, src, TRUE, FALSE)
poll_read_checking_late(buf_len, src) == poll_read_faulty(buf_len, src, FALSE, TRUE)

\* <LengthLimit<T> as AsyncRead>::poll_read with a buffer of buf_len bytes,
\* where `src` is the wrapped reader's answer to the delegated poll
\* (NotPolled.outcome when the wrapper returns before delegating).
poll_read(buf_len, src) ==
    /\ op' = "poll_read"
    /\ last_buf' = buf_len
    /\ UNCHANGED <<data, max_bytes, reader_kind, returned>>
    /\ IF limit_reached(bytes_remaining)
       THEN /\ src = NoResult
            /\ result' = ReadyErr(from(LengthLimitExceeded))
            /\ delegated' = NotPolled
            /\ UNCHANGED <<bytes_remaining, pos, output, reported>>
       ELSE LET cap == narrow(buf_len, bytes_remaining)
            IN  /\ delegated' = Polled(cap, src)
                /\ CASE src.tag = "Pending" ->
                          \* ready!: return Poll::Pending
                          /\ result' = Pending
                          /\ UNCHANGED <<bytes_remaining, pos, output, reported>>
                     [] src.tag = "Err" ->
                          \* ?: return Poll::Ready(Err(e))
                          /\ src.err \in SourceErrors
                          /\ result' = ReadyErr(try(src.err))
                          /\ UNCHANGED <<bytes_remaining, pos, output, reported>>
                     [] src.tag = "Ok" ->
                          /\ src.n \in reader_counts(cap)
                          /\ pos' = pos + reader_written(cap, src.n)
                          /\ output' = output \o
                                [i \in 1..reader_written(cap, src.n) |-> reader_byte(pos + i)]
                          /\ bytes_remaining' = saturating_sub(bytes_remaining, src.n)
                          /\ reported' = reported + src.n
                          /\ result' = ReadyOk(src.n)
                     [] OTHER -> FALSE

\* ---------------------------------------------------------------- tasks
\* A read_to_end task that is not being polled: its own wrapper (a copy,
\* LengthLimit is Clone + Copy), its own reader cursor and its own output.
Task(p, b, o, r, res, d, l, st) ==
    [pos |-> p, bytes_remaining |-> b, output |-> o, reported |-> r,
     result |-> res, delegated |-> d, last_buf |-> l, loop |-> st]

NoTask == Task(0, 0, <<>>, 0, NoResult, NotPolled, 0, "none")

\* LengthLimit::bytes_remaining(&self)
bytes_remaining_fn ==
    /\ op' = "bytes_remaining"
    /\ returned' = ReturnUsize(bytes_remaining)
    /\ UNCHANGED <<data, pos, bytes_remaining, max_bytes, output, reported,
                   result, delegated, last_buf, reader_kind>>

\* <LengthLimit<T> as AsRef<T>>::as_ref(&self)
as_ref ==
    /\ op' = "as_ref"
    /\ returned' = ReturnRef(data, pos)
    /\ UNCHANGED <<data, pos, bytes_remaining, max_bytes, output, reported,
                   result, delegated, last_buf, reader_kind>>

\* LengthLimit::into_inner(self): the wrapper is consumed, the reader moves
\* out as it is
into_inner ==
    /\ op' = "into_inner"
    /\ returned' = ReturnReader(data, pos)
    /\ UNCHANGED <<data, pos, bytes_remaining, max_bytes, output, reported,
                   result, delegated, last_buf, reader_kind>>

\* the wrapper has not been consumed by into_inner
Live == op # "into_inner"

\* ---------------------------------------------------------------- any caller
\* A caller may poll with any buffer, in any order, whatever came back, and
\* call the accessors in between, until it consumes the wrapper.
ReadLimited == \E n \in 0..MaxBuf :
                   Live /\ poll_read(n, NoResult) /\ UNCHANGED <<loop, units, parked>>
ReadData    == \E n \in 0..MaxBuf, k \in 0..(MaxBuf + MaxOver) :
                   Live /\ poll_read(n, ReadyOk(k)) /\ UNCHANGED <<loop, units, parked>>
ReadPending == \E n \in 0..MaxBuf :
                   Live /\ poll_read(n, Pending) /\ UNCHANGED <<loop, units, parked>>
ReadFailed  == \E n \in 0..MaxBuf, e \in SourceErrors :
                   Live /\ poll_read(n, ReadyErr(e)) /\ UNCHANGED <<loop, units, parked>>
CallBytesRemaining == Live /\ bytes_remaining_fn /\ UNCHANGED <<loop, units, parked>>
CallAsRef          == Live /\ as_ref /\ UNCHANGED <<loop, units, parked>>
CallIntoInner      == Live /\ into_inner /\ UNCHANGED <<loop, units, parked>>

Init ==
    /\ \E reader \in Sources, m \in 0..MaxLimit : new(reader, m)
    /\ reader_kind = "finite"
    /\ loop = "none"
    /\ parked = NoTask
    /\ NoUnits

Next ==
    \/ ReadLimited \/ ReadData \/ ReadPending \/ ReadFailed
    \/ CallBytesRemaining \/ CallAsRef \/ CallIntoInner

Spec == Init /\ [][Next]_vars

\* A caller polling a reader that may return counts above the length of the
\* buffer it was given.
InitOverReport ==
    /\ \E reader \in Sources, m \in 0..MaxLimit : new(reader, m)
    /\ reader_kind = "overreporting"
    /\ loop = "none"
    /\ parked = NoTask
    /\ NoUnits

NextOverReport == ReadLimited \/ ReadData \/ ReadPending \/ ReadFailed

SpecOverReport == InitOverReport /\ [][NextOverReport]_vars

\* ---------------------------------------------------------------- read_to_end
\* futures_lite's read_to_end as the tests drive it: poll the wrapper with a
\* non-empty spare buffer until it returns Ok(0) (success with the total) or
\* an error; a pending poll is polled again.
read_to_end(n, src) ==
    /\ loop = "reading"
    /\ n >= 1
    /\ poll_read(n, src)
    /\ loop' = CASE result'.tag = "Err" -> "err"
                 [] result'.tag = "Ok" /\ result'.n = 0 -> "ok"
                 [] OTHER -> "reading"
    /\ UNCHANGED <<units, parked>>

LoopLimited == \E n \in 1..MaxBuf : Live /\ read_to_end(n, NoResult)
LoopData    == \E n \in 1..MaxBuf, k \in 0..MaxBuf : Live /\ read_to_end(n, ReadyOk(k))
LoopPending == \E n \in 1..MaxBuf : Live /\ read_to_end(n, Pending)

InitLoop ==
    /\ \E reader \in Sources, m \in 0..MaxLimit : new(reader, m)
    /\ reader_kind = "finite"
    /\ loop = "reading"
    /\ parked = NoTask
    /\ NoUnits

NextLoop == LoopLimited \/ LoopData \/ LoopPending

SpecLoop == InitLoop /\ [][NextLoop]_vars

\* ---------------------------------------------------------------- two runs
\* Two read_to_end tasks over the same contents and the same limit, each
\* with its own copy of the wrapper and its own reader cursor.  The executor
\* polls one task at a time; switch_task parks the task being polled and
\* takes up the other one.
switch_task ==
    /\ parked.loop # "none"
    /\ parked' = Task(pos, bytes_remaining, output, reported, result,
                      delegated, last_buf, loop)
    /\ pos' = parked.pos
    /\ bytes_remaining' = parked.bytes_remaining
    /\ output' = parked.output
    /\ reported' = parked.reported
    /\ result' = parked.result
    /\ delegated' = parked.delegated
    /\ last_buf' = parked.last_buf
    /\ loop' = parked.loop
    /\ UNCHANGED <<data, max_bytes, op, reader_kind, returned, units>>

InitTwoRuns ==
    /\ \E reader \in Sources, m \in 0..MaxLimit :
            /\ new(reader, m)
            /\ parked = Task(0, m, <<>>, 0, NoResult, NotPolled, 0, "reading")
    /\ reader_kind = "finite"
    /\ loop = "reading"
    /\ NoUnits

NextTwoRuns == LoopLimited \/ LoopData \/ LoopPending \/ switch_task

SpecTwoRuns == InitTwoRuns /\ [][NextTwoRuns]_vars

\* ---------------------------------------------------------------- progress
\* read_to_end over a reader that may also fail, and over a stream that
\* never ends.  The caller keeps polling and a pending read is resumed, so
\* a poll that does not come back pending happens again and again.
LoopFailed == \E n \in 1..MaxBuf, e \in SourceErrors :
                  Live /\ read_to_end(n, ReadyErr(e))

InitLoopLive ==
    /\ \E reader \in Sources \ {<<>>}, m \in 0..MaxLimit : new(reader, m)
    /\ reader_kind \in {"finite", "endless"}
    /\ loop = "reading"
    /\ parked = NoTask
    /\ NoUnits

LoopProgress == LoopLimited \/ LoopData \/ LoopFailed

NextLoopLive == LoopLimited \/ LoopData \/ LoopPending \/ LoopFailed

SpecLoopLive == InitLoopLive /\ [][NextLoopLive]_vars /\ WF_vars(LoopProgress)

\* ---------------------------------------------------------------- doc example
\* b"these are the input data"
InputData ==
    << 116, 104, 101, 115, 101, 32, 97, 114, 101, 32, 116, 104, 101, 32,
       105, 110, 112, 117, 116, 32, 100, 97, 116, 97 >>

\* b"these"
These == << 116, 104, 101, 115, 101 >>

\* input_data.limit_bytes(5) and input_data.limit_kb(1)
ExampleLimits == {5, 1 * Kilo}

InitExample ==
    /\ \E m \in ExampleLimits : new(InputData, m)
    /\ reader_kind = "finite"
    /\ loop = "reading"
    /\ parked = NoTask
    /\ NoUnits

SpecExample == InitExample /\ [][NextLoop]_vars

\* ---------------------------------------------------------------- constructors
\* One call of a LengthLimitExt constructor on an empty reader, as in the
\* unit_conversions test, with any argument and in either kind of build.
CallLimitBytes ==
    /\ built.fn = "none"
    /\ built' = Built("limit_bytes", limit_bytes(unit_arg))
    /\ UNCHANGED <<data, pos, bytes_remaining, max_bytes, output, reported,
                   result, delegated, last_buf, op, loop, overflow_checks, unit_arg,
                   reader_kind, returned, parked>>

CallLimitKb ==
    /\ built.fn = "none"
    /\ built' = Built("limit_kb", limit_kb(unit_arg))
    /\ UNCHANGED <<data, pos, bytes_remaining, max_bytes, output, reported,
                   result, delegated, last_buf, op, loop, overflow_checks, unit_arg,
                   reader_kind, returned, parked>>

CallLimitMb ==
    /\ built.fn = "none"
    /\ built' = Built("limit_mb", limit_mb(unit_arg))
    /\ UNCHANGED <<data, pos, bytes_remaining, max_bytes, output, reported,
                   result, delegated, last_buf, op, loop, overflow_checks, unit_arg,
                   reader_kind, returned, parked>>

CallLimitGb ==
    /\ built.fn = "none"
    /\ built' = Built("limit_gb", limit_gb(unit_arg))
    /\ UNCHANGED <<data, pos, bytes_remaining, max_bytes, output, reported,
                   result, delegated, last_buf, op, loop, overflow_checks, unit_arg,
                   reader_kind, returned, parked>>

InitUnits ==
    /\ new(<<>>, 0)
    /\ reader_kind = "finite"
    /\ loop = "none"
    /\ parked = NoTask
    /\ overflow_checks \in BOOLEAN
    /\ unit_arg \in Words
    /\ built = NotBuilt

NextUnits == CallLimitBytes \/ CallLimitKb \/ CallLimitMb \/ CallLimitGb

SpecUnits == InitUnits /\ [][NextUnits]_vars

\* the read_to_end future has resolved
LoopDone == loop \in {"ok", "err"}

\* the value poll_read returns for a limit violation
LimitError == ReadyErr(from(LengthLimitExceeded))

\* the last poll_read failed because its reader's poll failed
ReaderFailed == op = "poll_read" /\ delegated.called /\ delegated.outcome.tag = "Err"

\* the last poll_read raised the limit error itself, the reader not polled
OwnLimitError == op = "poll_read" /\ ~delegated.called /\ result = LimitError

\* ================================================================ properties

\* C1 (exact limit): when read_to_end over a wrapper whose limit equals the
\* length of the source has resolved, it has resolved to the limit error,
\* never to success, and the caller holds exactly max_bytes bytes: the whole
\* source, in order.  The limit 0 over the empty source is included.
ExactLimitFails ==
    (LoopDone /\ Len(data) = max_bytes) =>
        /\ loop = "err"
        /\ result = LimitError
        /\ Len(output) = max_bytes
        /\ reported = max_bytes
        /\ output = data

ExactLimitReached ==
    /\ loop = "err"
    /\ Len(data) = max_bytes
    /\ max_bytes >= 2
    /\ result = LimitError
    /\ output = data

\* C2 (over limit): when read_to_end over a wrapper whose limit is less than
\* the length of the source has resolved, it has resolved to the limit error
\* and the caller holds exactly the first max_bytes bytes of the source,
\* whatever buffers (n >= 1) were used and however the source split its data.
OverLimitFails ==
    (LoopDone /\ Len(data) > max_bytes) =>
        /\ loop = "err"
        /\ result = LimitError
        /\ reported = max_bytes
        /\ output = SubSeq(data, 1, max_bytes)

OverLimitReached ==
    /\ loop = "err"
    /\ Len(data) > max_bytes
    /\ max_bytes >= 2
    /\ result = LimitError
    /\ output = SubSeq(data, 1, max_bytes)
    /\ output # data

\* C3 (under limit): when read_to_end over a wrapper whose limit is greater
\* than the length of the source has resolved, it has resolved to success,
\* the total reported is the length of the source and the caller holds the
\* contents of the source in order.
UnderLimitSucceeds ==
    (LoopDone /\ Len(data) < max_bytes) =>
        /\ loop = "ok"
        /\ result = ReadyOk(0)
        /\ reported = Len(data)
        /\ output = data

UnderLimitReached ==
    /\ loop = "ok"
    /\ Len(data) < max_bytes
    /\ Len(data) >= 2
    /\ reported = Len(data)
    /\ output = data

\* C4: in every reachable state the bytes the wrapper has reported to its
\* caller since construction number at most max_bytes, and so do the bytes
\* written to the caller's buffers and the bytes taken from the reader.
ReportedWithinLimit ==
    /\ reported <= max_bytes
    /\ Len(output) <= max_bytes
    /\ pos <= max_bytes

LimitUsedUp ==
    /\ op = "poll_read"
    /\ max_bytes >= 2
    /\ reported = max_bytes
    /\ Len(data) > max_bytes
    /\ result.tag = "Ok"
    /\ last_buf > delegated.cap

\* C5: a poll_read that starts with bytes_remaining == 0 returns the limit
\* error for every buffer length, 0 included, does not poll the wrapped
\* reader and leaves its cursor where it was.
ExhaustedReadFailsAtOnce ==
    [][ (bytes_remaining = 0 /\ op' = "poll_read") =>
            /\ result' = LimitError
            /\ delegated' = NotPolled
            /\ pos' = pos
            /\ data' = data ]_vars

ExhaustedReadEmptyBuffer ==
    /\ op = "poll_read"
    /\ last_buf = 0
    /\ bytes_remaining = 0
    /\ result = LimitError
    /\ delegated = NotPolled
    /\ pos >= 1
    /\ pos < Len(data)

\* C6: once poll_read has returned the limit error that the wrapper raised
\* itself (the poll started with bytes_remaining == 0 and did not poll the
\* reader), that outcome stands through every later call, accessors
\* included, and every later poll_read raises it again: bytes_remaining is
\* 0 and stays 0, the reader is not polled, and no later poll delivers bytes
\* or reports success.  A poll_read that returns the limit error forwarded
\* from its reader started with bytes_remaining > 0 and leaves it as it was.
OwnLimitErrorIsPermanent ==
    [][ /\ (~delegated.called /\ result = LimitError) =>
            /\ bytes_remaining = 0
            /\ bytes_remaining' = 0
            /\ result' = LimitError
            /\ ~delegated'.called
            /\ output' = output
            /\ reported' = reported
            /\ pos' = pos
        /\ (~delegated.called /\ result = LimitError /\ op' = "poll_read") =>
            /\ OwnLimitError'
            /\ result'.tag # "Ok"
        /\ (op' = "poll_read" /\ delegated'.called /\ result' = LimitError) =>
            /\ delegated'.outcome = LimitError
            /\ bytes_remaining > 0
            /\ bytes_remaining' = bytes_remaining
            /\ output' = output ]_vars

LimitErrorRepeated ==
    /\ OwnLimitError
    /\ bytes_remaining = 0
    /\ max_bytes >= 1
    /\ last_buf = MaxBuf
    /\ Len(output) = max_bytes

\* C6 as stated, for every poll_read that returned the limit error, the one
\* forwarded from a reader that is itself a LengthLimit included: that poll
\* leaves bytes_remaining positive, and a later poll may deliver bytes.
LimitErrorIsPermanent ==
    [][ (result = LimitError /\ op' = "poll_read") =>
            /\ bytes_remaining = 0
            /\ bytes_remaining' = 0
            /\ result' = LimitError
            /\ output' = output
            /\ reported' = reported
            /\ pos' = pos ]_vars

\* C7: when the wrapped reader's poll fails, poll_read returns that very
\* error, kind and contained error unchanged; the result is the limit
\* error only when that is the error the reader raised, and it contains the
\* marker only when the reader's error does.
SourceErrorForwarded ==
    ReaderFailed =>
        /\ bytes_remaining > 0
        /\ result.tag = "Err"
        /\ result = delegated.outcome
        /\ result.err = delegated.outcome.err
        /\ result.err.kind = delegated.outcome.err.kind
        /\ result.err.inner = delegated.outcome.err.inner
        /\ (result = LimitError <=> delegated.outcome = LimitError)
        /\ (result.err.inner = LengthLimitExceeded
                <=> delegated.outcome.err.inner = LengthLimitExceeded)

SourceErrorSeen ==
    /\ ReaderFailed
    /\ delegated.outcome.err.kind = "InvalidData"
    /\ delegated.outcome.err.inner # LengthLimitExceeded
    /\ result.tag = "Err"
    /\ bytes_remaining >= 1
    /\ reported >= 1

\* C8: the wrapper raises the limit error itself only in a poll_read that
\* starts with bytes_remaining == 0.  A poll_read that starts with
\* bytes_remaining > 0 polls the wrapped reader, and an error it returns,
\* one with the marker included, is the error the reader raised; when the
\* wrapped reader reports end of stream (0 bytes) the caller gets Ok(0) and
\* bytes_remaining is unchanged.
LimitErrorOnlyAtZero ==
    [][ /\ (op' = "poll_read" /\ ~delegated'.called) => bytes_remaining = 0
        /\ (bytes_remaining > 0 /\ op' = "poll_read") =>
            /\ delegated'.called
            /\ ~OwnLimitError'
            /\ (result'.tag = "Err" => result' = delegated'.outcome)
            /\ (result' = LimitError => delegated'.outcome = LimitError)
            /\ (result'.err.inner = LengthLimitExceeded =>
                    delegated'.outcome.err.inner = LengthLimitExceeded)
            /\ (delegated'.outcome = ReadyOk(0) =>
                    /\ result' = ReadyOk(0)
                    /\ bytes_remaining' = bytes_remaining) ]_vars

EndOfStreamBelowLimit ==
    /\ op = "poll_read"
    /\ delegated.called
    /\ delegated.cap >= 1
    /\ delegated.outcome = ReadyOk(0)
    /\ result = ReadyOk(0)
    /\ bytes_remaining = 1
    /\ pos = Len(data)
    /\ pos >= 1

\* C9: the error of a limit violation is an io::Error of kind InvalidData
\* whose contained error is the LengthLimitExceeded marker and whose
\* message is "Length limit exceeded"; it has no other content, so every
\* violation yields the same value.
LimitErrorValue ==
    (op = "poll_read" /\ ~delegated.called) =>
        /\ result.tag = "Err"
        /\ result.err.kind = "InvalidData"
        /\ result.err.inner = LengthLimitExceeded
        /\ to_string(result.err) = "Length limit exceeded"
        /\ DOMAIN result.err = {"kind", "inner"}
        /\ result.n = 0

LimitErrorRaised ==
    /\ op = "poll_read"
    /\ ~delegated.called
    /\ result.tag = "Err"
    /\ to_string(result.err) = "Length limit exceeded"
    /\ max_bytes = MaxLimit
    /\ Len(data) = max_bytes

\* ---------------------------------------------------------------- exact products
\* v * 1024^k as a natural number, in digits of base 1024
Product(v, k) == [i \in 1..(NumLimbs + k) |-> IF i <= k THEN 0 ELSE v[i - k]]

\* the same digits, written with n places
Pad(d, n) == [i \in 1..n |-> IF i <= Len(d) THEN d[i] ELSE 0]

\* the natural number is below 2^WordBits
FitsWord(d) ==
    /\ d[NumLimbs] < TopBase
    /\ \A i \in (NumLimbs + 1)..Len(d) : d[i] = 0

\* the natural number modulo 2^WordBits, as a usize
LowBits(d) == [i \in 1..NumLimbs |-> IF i = NumLimbs THEN d[i] % TopBase ELSE d[i]]

\* a usize below 2^31 as an integer
Value(w) == w[1] + Kilo * w[2] + Kilo * Kilo * w[3] + Kilo * Kilo * Kilo * w[4]

Factors(f) ==
    CASE f = "limit_bytes" -> 0
      [] f = "limit_kb" -> 1
      [] f = "limit_mb" -> 2
      [] f = "limit_gb" -> 3

\* C10 as stated: for every usize v, limit_bytes(v), limit_kb(v),
\* limit_mb(v), limit_gb(v) give an initial bytes_remaining of v, v*1024,
\* v*1024*1024, v*1024*1024*1024, also when the product does not fit usize.
UnitProductAlways ==
    (built.fn # "none") =>
        /\ ~built.out.panicked
        /\ Pad(built.out.bytes_remaining, NumLimbs + 3)
             = Pad(Product(unit_arg, Factors(built.fn)), NumLimbs + 3)

\* C10 amended: when the product fits usize the constructors give exactly
\* v, v*1024, v*1024*1024, v*1024*1024*1024 (1 KB, 1 MB, 1 GB give 1024,
\* 1048576, 1073741824); when it does not fit, the call panics in a build
\* that checks overflow and otherwise gives the product modulo 2^WordBits.
UnitProductWhenItFits ==
    (built.fn # "none") =>
        LET p == Product(unit_arg, Factors(built.fn))
        IN  /\ FitsWord(p) =>
                /\ ~built.out.panicked
                /\ Pad(built.out.bytes_remaining, NumLimbs + 3) = Pad(p, NumLimbs + 3)
            /\ ~FitsWord(p) =>
                IF overflow_checks
                THEN built.out.panicked
                ELSE /\ ~built.out.panicked
                     /\ built.out.bytes_remaining = LowBits(p)
            /\ unit_arg = One =>
                Value(built.out.bytes_remaining) =
                    CASE built.fn = "limit_bytes" -> 1
                      [] built.fn = "limit_kb" -> 1024
                      [] built.fn = "limit_mb" -> 1048576
                      [] built.fn = "limit_gb" -> 1073741824

OneGigabyteBuilt ==
    /\ built.fn = "limit_gb"
    /\ unit_arg = One
    /\ ~built.out.panicked
    /\ Value(built.out.bytes_remaining) = 1073741824

\* ---------------------------------------------------------------- C11..C19
Max(a, b) == IF a > b THEN a ELSE b

\* C11: over any sequence of polls (successful, failing or pending, any
\* buffers, any reader, an over-reporting one included) bytes_remaining
\* never increases from one state to the next and is never negative.
BudgetNeverGrows ==
    [][ /\ bytes_remaining' <= bytes_remaining
        /\ bytes_remaining >= 0
        /\ bytes_remaining' >= 0 ]_vars

BudgetShrunk ==
    /\ op = "poll_read"
    /\ result.tag = "Ok"
    /\ result.n >= 1
    /\ bytes_remaining >= 1
    /\ bytes_remaining + 2 <= max_bytes
    /\ reported = max_bytes - bytes_remaining

\* C16 as stated: after a poll that returns Ok(k), bytes_remaining is its
\* value before the poll minus k, saturating at 0, and whenever the wrapped
\* reader reports a k larger than the capacity it was given bytes_remaining
\* becomes 0.
SaturatesAboveCapacity ==
    [][ (op' = "poll_read" /\ result'.tag = "Ok") =>
            /\ bytes_remaining' = Max(bytes_remaining - result'.n, 0)
            /\ (result'.n > delegated'.cap => bytes_remaining' = 0) ]_vars

\* C16 amended: after a poll that returns Ok(k), bytes_remaining is its
\* value before the poll minus k, saturating at 0: a k larger than
\* bytes_remaining (which takes a reader that reports more than the
\* capacity it was given) leaves 0, not a wrapped-around large value, and a
\* k above the capacity but not above bytes_remaining is subtracted as is.
SaturatesAboveBudget ==
    [][ (op' = "poll_read" /\ result'.tag = "Ok") =>
            /\ bytes_remaining' = Max(bytes_remaining - result'.n, 0)
            /\ bytes_remaining' <= bytes_remaining
            /\ (result'.n > bytes_remaining =>
                    /\ bytes_remaining' = 0
                    /\ result'.n > delegated'.cap)
            /\ (result'.n <= bytes_remaining =>
                    bytes_remaining' = bytes_remaining - result'.n) ]_vars

BudgetSaturated ==
    /\ op = "poll_read"
    /\ result.tag = "Ok"
    /\ reported = result.n
    /\ result.n > max_bytes
    /\ result.n > delegated.cap
    /\ max_bytes >= 1
    /\ bytes_remaining = 0

\* C12 as stated: b"these are the input data" is a 25-byte source; with a
\* limit of 5 bytes read_to_end fails, the output buffer is b"these" and
\* the error is of kind InvalidData.
ExampleOfTwentyFiveBytes ==
    /\ Len(data) = 25
    /\ (LoopDone /\ max_bytes = 5) =>
            /\ loop = "err"
            /\ output = These
            /\ result.err.kind = "InvalidData"

\* C12 amended: b"these are the input data" is a 24-byte source; with a
\* limit of 5 bytes read_to_end fails, the output buffer is b"these" (the
\* first 5 bytes) and the error is of kind InvalidData.
ExampleOfTwentyFourBytes ==
    /\ Len(data) = 24
    /\ These = SubSeq(data, 1, 5)
    /\ (LoopDone /\ max_bytes = 5) =>
            /\ loop = "err"
            /\ output = These
            /\ result.tag = "Err"
            /\ result.err.kind = "InvalidData"

ExampleFailed ==
    /\ data = InputData
    /\ max_bytes = 5
    /\ loop = "err"
    /\ output = These
    /\ result.err.kind = "InvalidData"

\* C13: whenever poll_read delegates, the buffer it hands to the wrapped
\* reader has length min(buf.len(), bytes_remaining): bytes_remaining when
\* the caller's buffer is longer, the caller's length otherwise, and so
\* never more than the budget.
HandsOverMinimum ==
    [][ (op' = "poll_read" /\ delegated'.called) =>
            /\ bytes_remaining > 0
            /\ delegated'.cap = Min(last_buf', bytes_remaining)
            /\ delegated'.cap <= bytes_remaining
            /\ (last_buf' > bytes_remaining => delegated'.cap = bytes_remaining)
            /\ (last_buf' <= bytes_remaining => delegated'.cap = last_buf') ]_vars

BufferNarrowed ==
    /\ op = "poll_read"
    /\ delegated.called
    /\ result = Pending
    /\ delegated.cap = bytes_remaining
    /\ delegated.cap >= 1
    /\ delegated.cap < last_buf
    /\ reported >= 1

\* C14: a poll that does not return a byte count (the wrapped reader
\* failed or is pending) leaves bytes_remaining as it was, whatever the
\* caller does next; bytes_remaining changes only in a poll that returns
\* Ok(k), and then by k.
UnfinishedReadKeepsBudget ==
    [][ /\ (op' = "poll_read" /\ result'.tag # "Ok") =>
                /\ bytes_remaining' = bytes_remaining
                /\ reported' = reported
        /\ (bytes_remaining' # bytes_remaining) =>
                /\ op' = "poll_read"
                /\ result'.tag = "Ok"
                /\ result'.n = bytes_remaining - bytes_remaining' ]_vars

ReadSuspendedMidway ==
    /\ op = "poll_read"
    /\ result = Pending
    /\ delegated.called
    /\ delegated.cap >= 2
    /\ reported >= 1
    /\ bytes_remaining = max_bytes - reported
    /\ bytes_remaining >= 2

\* C15: the poll that takes bytes_remaining from a positive value to 0
\* returns Ok with those bytes; the wrapper raises the limit error in a
\* poll that starts with bytes_remaining == 0, that is in the next one, and
\* no poll that returns an error, the limit error forwarded from the reader
\* included, is the one that reached 0.
LastBytesAreDelivered ==
    [][ /\ (op' = "poll_read" /\ bytes_remaining > 0 /\ bytes_remaining' = 0) =>
                /\ result' = ReadyOk(bytes_remaining)
                /\ Len(output') = Len(output) + bytes_remaining
                /\ reported' = max_bytes
        /\ (op' = "poll_read" /\ bytes_remaining' = 0 /\ result'.tag = "Ok") =>
                /\ bytes_remaining > 0
                /\ Len(output') > Len(output)
        /\ (op' = "poll_read" /\ bytes_remaining = 0) => OwnLimitError'
        /\ (op' = "poll_read" /\ result' = LimitError) =>
                /\ bytes_remaining' = bytes_remaining
                /\ output' = output
                /\ (bytes_remaining = 0 \/ delegated'.outcome = LimitError) ]_vars

LastBytesRead ==
    /\ op = "poll_read"
    /\ result.tag = "Ok"
    /\ result.n >= 1
    /\ result.n < max_bytes
    /\ bytes_remaining = 0
    /\ output = SubSeq(data, 1, max_bytes)
    /\ Len(data) > max_bytes

\* C17: in every reachable state the bytes taken from the wrapped reader,
\* the bytes delivered to the caller and max_bytes - bytes_remaining are
\* the same number; bytes_remaining() and as_ref() change none of them and
\* return the budget and the reader as they are; into_inner() hands the
\* reader back with its cursor at exactly that number.
Accounted ==
    /\ pos = Len(output)
    /\ Len(output) = max_bytes - bytes_remaining
    /\ reported = Len(output)
    /\ output = SubSeq(data, 1, pos)

NoReadAhead ==
    [][ /\ Accounted
        /\ Accounted'
        /\ (op' \in {"bytes_remaining", "as_ref", "into_inner"}) =>
                /\ pos' = pos
                /\ output' = output
                /\ bytes_remaining' = bytes_remaining
        /\ (op' = "bytes_remaining") =>
                returned' = ReturnUsize(max_bytes - Len(output))
        /\ (op' = "as_ref") =>
                returned' = ReturnRef(data, Len(output))
        /\ (op' = "into_inner") =>
                /\ returned' = ReturnReader(data, Len(output))
                /\ returned'.cursor = max_bytes - bytes_remaining ]_vars

ReaderHandedBackMidway ==
    /\ op = "into_inner"
    /\ returned.kind = "reader"
    /\ returned.cursor >= 1
    /\ returned.cursor < Len(returned.contents)
    /\ bytes_remaining >= 1
    /\ Len(output) = returned.cursor

\* C18: two read_to_end runs over the same contents with the same limit,
\* whatever buffers (n >= 1) each uses, however the reader splits its data
\* and wherever it is pending, resolve to the same result with the same
\* bytes delivered.
SameOutcome ==
    (LoopDone /\ parked.loop \in {"ok", "err"}) =>
        /\ loop = parked.loop
        /\ result = parked.result
        /\ output = parked.output
        /\ reported = parked.reported

BothRunsDone ==
    /\ loop = "err"
    /\ parked.loop = "err"
    /\ last_buf # parked.last_buf
    /\ output = parked.output
    /\ Len(output) >= 2
    /\ Len(data) > max_bytes

\* C19: when a poll that is not pending keeps happening, read_to_end
\* resolves; over a stream that never ends it never resolves to success,
\* and it resolves to the limit error unless the reader itself failed
\* first.
LoopTerminates ==
    /\ <>LoopDone
    /\ [](reader_kind = "endless" => loop # "ok")
    /\ (reader_kind = "endless" =>
            <>(loop = "err" /\ (OwnLimitError \/ ReaderFailed)))
    /\ []((LoopDone /\ reader_kind = "endless" /\ ~ReaderFailed)
            => (OwnLimitError /\ bytes_remaining = 0))

EndlessStreamCut ==
    /\ reader_kind = "endless"
    /\ loop = "err"
    /\ OwnLimitError
    /\ Len(output) = max_bytes
    /\ max_bytes > Len(data)

====
